---- MODULE Spec2Model ----
(***************************************************************************)
(* Verification model of the financial-document question answering        *)
(* pipeline: document chunking, embedding, retrieval, answer composition, *)
(* input guardrail and the Streamlit session of main.py.                  *)
(*                                                                         *)
(* Text is a sequence of one-character strings.  Similarity scores are     *)
(* fixed-point numbers in hundredths (Scale); the vectors are drawn from a *)
(* set whose norms are integers, so every quotient is exact.               *)
(***************************************************************************)
EXTENDS Integers, Sequences, FiniteSets, TLC

VARIABLES
    \* ---- retrieval (utils/retriever.py, utils/embeddings.py)
    documents,        \* the chunk list handed to retrieve_context
    r_embeddings,     \* the vector array handed to retrieve_context (or None)
    r_call,           \* arguments and environment of the last retrieve_context call
    r_result,         \* what that call returned
    rpc               \* position of the retrieval pipeline

retrVars == <<documents, r_embeddings, r_call, r_result, rpc>>

VARIABLES
    \* ---- prose chunking loop (utils/document_processor.py, process_pdf)
    extracted_text,   \* the text after clean_text
    chunk_size,
    overlap,
    current_pos,
    chunks,           \* the chunks emitted so far
    spans,            \* for each emitted chunk, <<current_pos, chunk_end>> of its window
    cpc               \* "loop" while in the while loop, "done" after return

chunkVars == <<extracted_text, chunk_size, overlap, current_pos, chunks, spans, cpc>>

VARIABLES
    \* ---- tabular chunking (utils/document_processor.py, dataframe_to_chunks)
    df,                   \* the table: [columns, rows]
    sheet_name,           \* the sheet name, or NoSheet
    max_rows_per_chunk,
    t_i,                  \* the loop variable i of range(0, total_rows, max_rows_per_chunk)
    t_chunks,             \* the chunks appended so far
    t_groups,             \* for each chunk, the group it was formatted from
    tpc                   \* "start", "rows", "done"

tableVars == <<df, sheet_name, max_rows_per_chunk, t_i, t_chunks, t_groups, tpc>>

VARIABLES
    \* ---- process_document (utils/document_processor.py)
    d_file,           \* the file handed to process_document
    d_result,         \* what the caller got back
    dpc               \* "ready", "done"

docVars == <<d_file, d_result, dpc>>

VARIABLES
    \* ---- generate_answer and output_validator (utils/generator.py, utils/guardrails.py)
    a_query,
    a_contexts,
    a_none,           \* the contexts argument is None instead of a list
    a_result,         \* [answer, relevant_sentences] of generate_answer
    a_validated,      \* output_validator(answer)
    apc               \* "ready", "generated", "validated"

ansVars == <<a_query, a_contexts, a_none, a_result, a_validated, apc>>

VARIABLES
    \* ---- the Streamlit session (main.py)
    document_chunks,  \* st.session_state.document_chunks
    embeddings,       \* st.session_state.embeddings
    file_uploaded,    \* st.session_state.file_uploaded
    last_question,    \* st.session_state.last_question
    last_answer,      \* st.session_state.last_answer
    context_used,     \* st.session_state.context_used
    uploaded_file,    \* the value of the file_uploader widget (NoFile: none)
    question,         \* the value of the text_input widget
    s_run,            \* what the last run of the script did
    spc               \* "idle", or "rerun" after st.experimental_rerun()

sessVars == <<document_chunks, embeddings, file_uploaded, last_question, last_answer,
              context_used, uploaded_file, question, s_run, spc>>

vars == <<retrVars, chunkVars, tableVars, docVars, ansVars, sessVars>>

\* ------------------------------------------------------------------ bounds
MaxDocs == 3
MaxTopK == 4
MaxTextLen == 4      \* length of the exhaustively enumerated small texts
MaxChunkSize == 3    \* chunk_size of the small texts
MaxOverlap == 3      \* overlap of the small texts
MaxRows == 6         \* rows of a table
MaxPerChunk == 4     \* max_rows_per_chunk of a table
MaxContexts == 3     \* contexts handed to generate_answer

\* ------------------------------------------------------------- sequences
Min(a, b) == IF a < b THEN a ELSE b
Max(a, b) == IF a > b THEN a ELSE b

Range(s) == {s[i] : i \in 1..Len(s)}

\* s[:k] of Python for a list s.
SlicePrefix(s, k) ==
    IF k >= 0 THEN SubSeq(s, 1, Min(k, Len(s)))
    ELSE SubSeq(s, 1, Max(Len(s) + k, 0))

\* Python's None, and a list that may be None in its place
None == [isNone |-> TRUE]
List(items) == [isNone |-> FALSE, items |-> items]

SetMax(S) == CHOOSE m \in S : \A x \in S : x <= m

\* -------------------------------------------------------------------- text
\* A text is a sequence of one-character strings; positions are Python's
\* (0-based), so text[a:b] is PySlice(text, a, b).
PySlice(s, a, b) == SubSeq(s, a + 1, b)

Rep(c, n) == [i \in 1..n |-> c]

Whitespace == {" ", "\n", "\t"}
IsSpace(c) == c \in Whitespace

\* str.strip()
Strip(s) ==
    IF \A i \in 1..Len(s) : IsSpace(s[i]) THEN <<>>
    ELSE LET lead == CHOOSE k \in 0..(Len(s) - 1) :
                        ~IsSpace(s[k + 1]) /\ \A j \in 1..k : IsSpace(s[j])
             trail == CHOOSE k \in 0..(Len(s) - 1) :
                        ~IsSpace(s[Len(s) - k]) /\ \A j \in 0..(k - 1) : IsSpace(s[Len(s) - j])
         IN  SubSeq(s, lead + 1, Len(s) - trail)

\* str.rfind(sub, start, end): the highest position in [start, end - len(sub)]
\* where sub occurs, or -1.
rfind(s, sub, start, end) ==
    LET hits == {i \in start..(end - Len(sub)) : \A d \in 1..Len(sub) : s[i + d] = sub[d]}
    IN  IF hits = {} THEN -1 ELSE SetMax(hits)

\* keep the characters whose (1-based) position satisfies Keep
FilterIdx(s, Keep(_)) ==
    LET pairs == [i \in 1..Len(s) |-> <<i, s[i]>>]
        sel == SelectSeq(pairs, LAMBDA pr : Keep(pr[1]))
    IN  [j \in 1..Len(sel) |-> sel[j][2]]

ClosingPunct == {".", ",", ";", ":", "!", "?", ")"}
OpeningPunct == {"(", "{"}

\* re.sub(r'\n{3,}', '\n\n', text)
CollapseNewlines(s) ==
    FilterIdx(s, LAMBDA i : ~(s[i] = "\n" /\ i >= 3 /\ s[i-1] = "\n" /\ s[i-2] = "\n"))

\* re.sub(r' {2,}', ' ', text)
CollapseSpaces(s) ==
    FilterIdx(s, LAMBDA i : ~(s[i] = " " /\ i >= 2 /\ s[i-1] = " "))

\* re.sub(r'\s+([.,;:!?)])', r'\1', text): a whitespace run directly before
\* closing punctuation is dropped.
TrimBeforePunct(s) ==
    FilterIdx(s, LAMBDA i :
        ~(/\ IsSpace(s[i])
          /\ \E j \in (i+1)..Len(s) :
                /\ s[j] \in ClosingPunct
                /\ \A k \in i..(j-1) : IsSpace(s[k])))

\* re.sub(r'([({])\s+', r'\1', text): a whitespace run directly after an
\* opening bracket is dropped.
TrimAfterOpening(s) ==
    FilterIdx(s, LAMBDA i :
        ~(/\ IsSpace(s[i])
          /\ \E j \in 1..(i-1) :
                /\ s[j] \in OpeningPunct
                /\ \A k \in (j+1)..i : IsSpace(s[k])))

clean_text(text) ==
    Strip(TrimAfterOpening(TrimBeforePunct(CollapseSpaces(CollapseNewlines(text)))))

\* the texts clean_text leaves as they are: none of its patterns matches
IsNormalized(s) ==
    /\ \A i \in 3..Len(s) : ~(s[i] = "\n" /\ s[i-1] = "\n" /\ s[i-2] = "\n")
    /\ \A i \in 2..Len(s) : ~(s[i] = " " /\ s[i-1] = " ")
    /\ \A i \in 2..Len(s) : ~(IsSpace(s[i-1]) /\ s[i] \in ClosingPunct)
    /\ \A i \in 2..Len(s) : ~(s[i-1] \in OpeningPunct /\ IsSpace(s[i]))
    /\ Len(s) > 0 => ~IsSpace(s[1]) /\ ~IsSpace(s[Len(s)])

\* ---------------------------------------------------------- prose chunker
DEFAULT_CHUNK_SIZE == 1000
DEFAULT_OVERLAP == 200

PARAGRAPH == <<"\n", "\n">>
SENTENCE_ENDS == {<<".", " ">>, <<"?", " ">>, <<"!", " ">>}

\* boundary > current_pos + chunk_size / 2 (true division)
InBackHalf(boundary, pos, size) == 2 * boundary > 2 * pos + size

ChunkEnd(text, pos, size) ==
    LET window_end == Min(pos + size, Len(text))
    IN  IF window_end < Len(text)
        THEN LET paragraph_end == rfind(text, PARAGRAPH, pos, window_end)
                 sentence_end == SetMax({rfind(text, e, pos, window_end) : e \in SENTENCE_ENDS})
             IN  IF paragraph_end # -1 /\ InBackHalf(paragraph_end, pos, size)
                 THEN paragraph_end + 2
                 ELSE IF sentence_end # -1 /\ InBackHalf(sentence_end, pos, size)
                      THEN sentence_end + 2
                      ELSE window_end
        ELSE window_end

NextPos_NoProgress(pos, size, ovl) == Max(pos + size - ovl, pos)

\* max(current_pos + chunk_size - overlap, current_pos + 1)
NextPos(pos, size, ovl) == Max(pos + size - ovl, pos + 1)

\* one pass through the body of the while loop
ChunkStep(text, pos, size, ovl) ==
    LET chunk_end == ChunkEnd(text, pos, size)
    IN  [chunk_end |-> chunk_end,
         chunk |-> Strip(PySlice(text, pos, chunk_end)),
         next_pos |-> NextPos(pos, size, ovl)]

RECURSIVE ChunkLoop(_, _, _, _, _)
ChunkLoop(text, pos, size, ovl, acc) ==
    IF pos >= Len(text) THEN acc
    ELSE LET st == ChunkStep(text, pos, size, ovl)
         IN  ChunkLoop(text, st.next_pos, size, ovl,
                       IF st.chunk # <<>> THEN Append(acc, st.chunk) ELSE acc)

\* process_pdf after text extraction
chunk_text(raw_text, size, ovl) == ChunkLoop(clean_text(raw_text), 0, size, ovl, <<>>)

\* -------------------------------------------------------- tabular chunker
\* A table is [columns, rows]: columns are [name, dtype], a row is a sequence
\* of cells, a cell is a text or NaN.  A group is what a chunk is formatted
\* from: the schema, or the rows i+1..end_idx.
DEFAULT_MAX_ROWS_PER_CHUNK == 50
NoSheet == <<>>
NaN == <<"NaN">>

DigitChars == <<"0", "1", "2", "3", "4", "5", "6", "7", "8", "9">>

\* str(n) for n >= 0
RECURSIVE Decimal(_)
Decimal(n) ==
    IF n < 10 THEN <<DigitChars[n + 1]>>
    ELSE Decimal(n \div 10) \o <<DigitChars[(n % 10) + 1]>>

RECURSIVE JoinUpTo(_, _, _)
JoinUpTo(pieces, sep, n) ==
    IF n = 0 THEN <<>>
    ELSE IF n = 1 THEN pieces[1]
    ELSE JoinUpTo(pieces, sep, n - 1) \o sep \o pieces[n]

\* sep.join(pieces)
Join(pieces, sep) == JoinUpTo(pieces, sep, Len(pieces))

RECURSIVE ConcatUpTo(_, _)
ConcatUpTo(pieces, n) == IF n = 0 THEN <<>> ELSE ConcatUpTo(pieces, n - 1) \o pieces[n]

\* df.fillna('')
FillNaRow(row) == [c \in 1..Len(row) |-> IF row[c] = NaN THEN <<>> ELSE row[c]]
fillna(rows) == [k \in 1..Len(rows) |-> FillNaRow(rows[k])]

S_object == <<"o", "b", "j", "e", "c", "t">>

\* str(dtype) of a column after fillna(''): a column that held a missing
\* value now holds strings
DTypeAfterFill(table, c) ==
    IF \E k \in 1..Len(table.rows) : table.rows[k][c] = NaN
    THEN S_object ELSE table.columns[c].dtype

SchemaGroup(table, sheet) ==
    [kind |-> "schema", sheet |-> sheet, total_rows |-> Len(table.rows),
     columns |-> [c \in 1..Len(table.columns) |->
                    <<table.columns[c].name, DTypeAfterFill(table, c)>>]]

\* df.iloc[a:b]
Iloc(rows, a, b) == SubSeq(rows, a + 1, Min(b, Len(rows)))

RowGroupEnd_Unclamped(i, per_chunk, total_rows) == i + per_chunk

RowGroupEnd(i, per_chunk, total_rows) == Min(i + per_chunk, total_rows)

RowGroup(table, i, per_chunk, sheet) ==
    LET end_idx == RowGroupEnd(i, per_chunk, Len(table.rows))
    IN  [kind |-> "rows", sheet |-> sheet, first |-> i + 1, last |-> end_idx,
         header |-> [c \in 1..Len(table.columns) |-> table.columns[c].name],
         rows |-> Iloc(fillna(table.rows), i, end_idx)]

S_SchemaInformation == <<"S", "c", "h", "e", "m", "a", " ", "I", "n", "f", "o", "r", "m", "a", "t", "i", "o", "n", ":">>
S_Sheet == <<"S", "h", "e", "e", "t", ":", " ">>
S_TotalRows == <<"T", "o", "t", "a", "l", " ", "R", "o", "w", "s", ":", " ">>
S_Columns == <<"C", "o", "l", "u", "m", "n", "s", ":">>
S_DataRows == <<"D", "a", "t", "a", " ", "R", "o", "w", "s", " ">>
S_To == <<" ", "t", "o", " ">>
S_InSheet == <<" ", "(", "S", "h", "e", "e", "t", ":", " ">>
NL == <<"\n">>

\* the schema_info string
FormatSchema(g) ==
    S_SchemaInformation \o NL
    \o (IF Len(g.sheet) > 0 THEN S_Sheet \o g.sheet \o NL ELSE <<>>)
    \o S_TotalRows \o Decimal(g.total_rows) \o NL
    \o S_Columns \o NL
    \o ConcatUpTo([c \in 1..Len(g.columns) |->
                     <<"-", " ">> \o g.columns[c][1] \o <<" ", "(">> \o g.columns[c][2]
                        \o <<")">> \o NL], Len(g.columns))

\* chunk_df.to_csv(buffer, index=False)
ToCsv(header, rows) ==
    Join(header, <<",">>) \o NL
    \o ConcatUpTo([k \in 1..Len(rows) |-> Join(rows[k], <<",">>) \o NL], Len(rows))

\* the chunk_text string
FormatRowGroup(g) ==
    S_DataRows \o Decimal(g.first) \o S_To \o Decimal(g.last)
    \o (IF Len(g.sheet) > 0 THEN S_InSheet \o g.sheet \o <<")">> ELSE <<>>)
    \o <<":">> \o NL \o ToCsv(g.header, g.rows)

FormatGroup(g) == IF g.kind = "schema" THEN FormatSchema(g) ELSE FormatRowGroup(g)

RECURSIVE RowGroups(_, _, _, _, _)
RowGroups(table, i, per_chunk, sheet, acc) ==
    IF i >= Len(table.rows) THEN acc
    ELSE RowGroups(table, i + per_chunk, per_chunk, sheet,
                   Append(acc, RowGroup(table, i, per_chunk, sheet)))

dataframe_to_chunks(table, per_chunk, sheet) ==
    LET groups == RowGroups(table, 0, per_chunk, sheet, <<SchemaGroup(table, sheet)>>)
    IN  [j \in 1..Len(groups) |-> FormatGroup(groups[j])]

\* ------------------------------------------------------- process_document
\* A file is [ext, readable, pages, tables]: the extension of its path, whether
\* the parser of its format can read it, the text PDF extraction yields per
\* page, and the tables pandas yields (one per sheet; a CSV holds one).
LowerExt(ext) ==
    IF ext = ".PDF" THEN ".pdf" ELSE IF ext = ".Csv" THEN ".csv" ELSE ext

Returned(cs) == [chunks |-> cs, raised |-> "None", logged |-> "None"]
Raised(kind) == [chunks |-> <<>>, raised |-> kind, logged |-> "None"]

RECURSIVE ExtractPages(_, _)
ExtractPages(pages, n) ==
    IF n = 0 THEN <<>> ELSE ExtractPages(pages, n - 1) \o pages[n] \o PARAGRAPH

process_pdf(file) ==
    IF ~file.readable THEN Raised("ExtractionFailure")
    ELSE Returned(chunk_text(ExtractPages(file.pages, Len(file.pages)),
                             DEFAULT_CHUNK_SIZE, DEFAULT_OVERLAP))

process_csv(file) ==
    IF ~file.readable \/ Len(file.tables) = 0 THEN Returned(<<>>)
    ELSE Returned(dataframe_to_chunks(file.tables[1].table, DEFAULT_MAX_ROWS_PER_CHUNK, NoSheet))

RECURSIVE SheetChunks(_, _)
SheetChunks(tables, n) ==
    IF n = 0 THEN <<>>
    ELSE SheetChunks(tables, n - 1)
         \o dataframe_to_chunks(tables[n].table, DEFAULT_MAX_ROWS_PER_CHUNK, tables[n].sheet)

process_excel(file) ==
    IF ~file.readable THEN Returned(<<>>)
    ELSE Returned(SheetChunks(file.tables, Len(file.tables)))

\* the body of the try block
Dispatch(file) ==
    LET file_extension == LowerExt(file.ext)
    IN  IF file_extension = ".pdf" THEN process_pdf(file)
        ELSE IF file_extension = ".csv" THEN process_csv(file)
        ELSE IF file_extension \in {".xlsx", ".xls"} THEN process_excel(file)
        ELSE Raised("UnsupportedFormat")

\* except Exception: print the error, return []
process_document(file) ==
    LET body == Dispatch(file)
    IN  IF body.raised # "None"
        THEN [chunks |-> <<>>, raised |-> "None", logged |-> body.raised]
        ELSE body

\* ----------------------------------------------------------- more on text
UPPER == <<"A", "B", "C", "D", "E", "F", "G", "H", "I", "J", "K", "L", "M", "N", "O", "P", "Q", "R", "S", "T", "U", "V", "W", "X", "Y", "Z">>
LOWER == <<"a", "b", "c", "d", "e", "f", "g", "h", "i", "j", "k", "l", "m", "n", "o", "p", "q", "r", "s", "t", "u", "v", "w", "x", "y", "z">>
DIGITS == {"0", "1", "2", "3", "4", "5", "6", "7", "8", "9"}

\* str.lower(), one character at a time
UpperSet == Range(UPPER)
LowerMap == [c \in UpperSet |-> LOWER[CHOOSE i \in 1..Len(UPPER) : UPPER[i] = c]]
LowerChar(c) == IF c \in UpperSet THEN LowerMap[c] ELSE c

Lower(s) == [i \in 1..Len(s) |-> LowerChar(s[i])]

\* \w of a regular expression
WordChars == UpperSet \cup Range(LOWER) \cup DIGITS \cup {"_"}
IsWordChar(c) == c \in WordChars

\* the elements of a set of numbers in increasing order
SortedSeq(S) ==
    [k \in 1..Cardinality(S) |-> CHOOSE x \in S : Cardinality({y \in S : y <= x}) = k]

\* sub in s
OccursAt(s, i, sub) == \A d \in 1..Len(sub) : s[i + d - 1] = sub[d]

Contains(s, sub) == \E i \in 1..(Len(s) - Len(sub) + 1) : OccursAt(s, i, sub)

EndsWith(s, sub) ==
    Len(s) >= Len(sub) /\ SubSeq(s, Len(s) - Len(sub) + 1, Len(s)) = sub

\* str.split(): the maximal runs of non-whitespace
SplitWords(s) ==
    LET starts == {i \in 1..Len(s) : ~IsSpace(s[i]) /\ (i = 1 \/ IsSpace(s[i-1]))}
        order == SortedSeq(starts)
        EndOf(i) == CHOOSE j \in i..Len(s) :
                        /\ \A k \in i..j : ~IsSpace(s[k])
                        /\ (j = Len(s) \/ IsSpace(s[j+1]))
    IN  [k \in 1..Len(order) |-> SubSeq(s, order[k], EndOf(order[k]))]

\* str.split(sep) for a separator that cannot overlap itself
SplitOn(s, sep) ==
    LET hits == {i \in 1..(Len(s) - Len(sep) + 1) : OccursAt(s, i, sep)}
        order == SortedSeq(hits)
        n == Len(order)
    IN  [k \in 1..(n + 1) |->
            SubSeq(s, IF k = 1 THEN 1 ELSE order[k-1] + Len(sep),
                      IF k = n + 1 THEN Len(s) ELSE order[k] - 1)]

\* --------------------------------------------------------- answer composer
INSUFFICIENT_INFORMATION ==
    <<"I", " ", "d", "o", "n", "'", "t", " ", "h", "a", "v", "e", " ", "s", "u", "f", "f",
      "i", "c", "i", "e", "n", "t", " ", "i", "n", "f", "o", "r", "m", "a", "t", "i", "o",
      "n", " ", "i", "n", " ", "t", "h", "e", " ", "d", "o", "c", "u", "m", "e", "n", "t",
      " ", "t", "o", " ", "a", "n", "s", "w", "e", "r", " ", "t", "h", "i", "s", " ", "q",
      "u", "e", "s", "t", "i", "o", "n", ".">>

BASED_ON_PREFIX ==
    <<"B", "a", "s", "e", "d", " ", "o", "n", " ", "t", "h", "e", " ", "f", "i", "n", "a",
      "n", "c", "i", "a", "l", " ", "d", "o", "c", "u", "m", "e", "n", "t", ",", " ">>

FALLBACK_PREFIX ==
    <<"I", " ", "f", "o", "u", "n", "d", " ", "t", "h", "e", " ", "f", "o", "l", "l", "o",
      "w", "i", "n", "g", " ", "i", "n", "f", "o", "r", "m", "a", "t", "i", "o", "n", " ",
      "i", "n", " ", "t", "h", "e", " ", "d", "o", "c", "u", "m", "e", "n", "t", " ", "t",
      "h", "a", "t", " ", "m", "i", "g", "h", "t", " ", "h", "e", "l", "p", " ", "a", "n",
      "s", "w", "e", "r", " ", "y", "o", "u", "r", " ", "q", "u", "e", "s", "t", "i", "o",
      "n", ":", " ">>

stopwords == {
    <<"w", "h", "a", "t">>, <<"i", "s">>, <<"a", "r", "e">>, <<"t", "h", "e">>, <<"a">>,
    <<"a", "n">>, <<"o", "f">>, <<"i", "n">>, <<"f", "o", "r">>, <<"t", "o">>,
    <<"a", "n", "d">>, <<"w", "i", "t", "h">>, <<"o", "n">>, <<"b", "y">>,
    <<"f", "r", "o", "m">>, <<"a", "b", "o", "u", "t">>, <<"a", "s">>, <<"h", "o", "w">>,
    <<"m", "u", "c", "h">>, <<"m", "a", "n", "y">>, <<"w", "h", "e", "r", "e">>,
    <<"w", "h", "e", "n">>, <<"w", "h", "i", "c", "h">>, <<"w", "h", "o">>,
    <<"w", "h", "o", "m">>, <<"w", "h", "o", "s", "e">>, <<"w", "h", "y">>, <<"c", "a", "n">>,
    <<"c", "o", "u", "l", "d">>, <<"d", "i", "d">>, <<"d", "o">>, <<"d", "o", "e", "s">>,
    <<"h", "a", "s">>, <<"h", "a", "v", "e">>, <<"h", "a", "d">>, <<"b", "e", "e", "n">>,
    <<"b", "e", "i", "n", "g">>, <<"w", "a", "s">>, <<"w", "e", "r", "e">>,
    <<"w", "i", "l", "l">> }

SENTENCE_SEPARATOR == <<".", " ">>
MAX_SENTENCES == 5
MIN_SENTENCE_LENGTH == 10

\* keywords = [word for word in query_lower.split() if word not in stopwords]
KeywordsOf(query) == SelectSeq(SplitWords(Lower(query)), LAMBDA w : w \notin stopwords)

\* any(keyword in text.lower() for keyword in keywords)
HasKeyword(text, keywords) ==
    \E k \in 1..Len(keywords) : Contains(Lower(text), keywords[k])

LongEnough_AtLeast(sentence) == Len(sentence) >= MIN_SENTENCE_LENGTH

\* len(sentence) > 10
LongEnough(sentence) == Len(sentence) > MIN_SENTENCE_LENGTH

\* the inner loop over the sentences of one context
RECURSIVE ScanSentences(_, _, _, _)
ScanSentences(sentences, n, keywords, relevant) ==
    IF n > Len(sentences) THEN relevant
    ELSE LET sentence == sentences[n]
         IN  ScanSentences(sentences, n + 1, keywords,
                IF /\ HasKeyword(sentence, keywords)
                   /\ sentence \notin Range(relevant)
                   /\ LongEnough(sentence)
                THEN Append(relevant, sentence) ELSE relevant)

\* the outer loop over the contexts
RECURSIVE ScanContexts(_, _, _, _)
ScanContexts(contexts, n, keywords, relevant) ==
    IF n > Len(contexts) THEN relevant
    ELSE ScanContexts(contexts, n + 1, keywords,
            IF HasKeyword(contexts[n], keywords)
            THEN ScanSentences(SplitOn(contexts[n], SENTENCE_SEPARATOR), 1, keywords, relevant)
            ELSE relevant)

CleanSentence(sentence) ==
    LET clean_sentence == Strip(sentence)
    IN  IF EndsWith(clean_sentence, <<".">>) THEN clean_sentence
        ELSE clean_sentence \o <<".">>

\* the loop that builds the answer from relevant_sentences[:5]
RECURSIVE BuildAnswer(_, _, _)
BuildAnswer(shown, n, answer) ==
    IF n > Len(shown) THEN answer
    ELSE BuildAnswer(shown, n + 1,
            answer \o (IF n > 1 THEN <<" ">> ELSE <<>>) \o CleanSentence(shown[n]))

\* generate_answer; relevant_sentences is returned beside the answer so that
\* properties can speak about it
\* contexts is a List or None.
generate_answer(query, contexts_arg) ==
    IF contexts_arg.isNone \/ Len(contexts_arg.items) = 0
    THEN [answer |-> INSUFFICIENT_INFORMATION, relevant_sentences |-> <<>>]
    ELSE LET contexts == contexts_arg.items
             keywords == KeywordsOf(query)
             relevant_sentences == ScanContexts(contexts, 1, keywords, <<>>)
         IN  [answer |-> IF relevant_sentences # <<>>
                         THEN BuildAnswer(SlicePrefix(relevant_sentences, MAX_SENTENCES), 1,
                                          BASED_ON_PREFIX)
                         ELSE FALLBACK_PREFIX \o contexts[1],
              relevant_sentences |-> relevant_sentences]

\* -------------------------------------------------------------- guardrails
\* A regular expression is a sequence of tokens: a literal, an optional
\* literal "(..)?", "\s*", "\s+", "\w+" and the word boundary "\b".
TokB == [t |-> "b", s |-> <<>>]
TokWs0 == [t |-> "ws*", s |-> <<>>]
TokWs1 == [t |-> "ws+", s |-> <<>>]
TokW1 == [t |-> "w+", s |-> <<>>]

\* the literal occurs at position i, ignoring case (re.IGNORECASE)
LitAt(s, i, literal) ==
    /\ i + Len(literal) - 1 <= Len(s)
    /\ \A d \in 1..Len(literal) : LowerChar(s[i + d - 1]) = literal[d]

WordAt(s, j) == j \in 1..Len(s) /\ IsWordChar(s[j])

RECURSIVE MatchAt(_, _, _, _)
MatchAt(s, i, pattern, k) ==
    IF k > Len(pattern) THEN TRUE
    ELSE LET tok == pattern[k]
         IN  CASE tok.t = "lit" ->
                    LitAt(s, i, tok.s) /\ MatchAt(s, i + Len(tok.s), pattern, k + 1)
               [] tok.t = "opt" ->
                    \/ LitAt(s, i, tok.s) /\ MatchAt(s, i + Len(tok.s), pattern, k + 1)
                    \/ MatchAt(s, i, pattern, k + 1)
               [] tok.t = "ws*" ->
                    \E j \in i..(Len(s) + 1) :
                        (\A m \in i..(j-1) : IsSpace(s[m])) /\ MatchAt(s, j, pattern, k + 1)
               [] tok.t = "ws+" ->
                    \E j \in (i+1)..(Len(s) + 1) :
                        (\A m \in i..(j-1) : IsSpace(s[m])) /\ MatchAt(s, j, pattern, k + 1)
               [] tok.t = "w+" ->
                    \E j \in (i+1)..(Len(s) + 1) :
                        (\A m \in i..(j-1) : IsWordChar(s[m])) /\ MatchAt(s, j, pattern, k + 1)
               [] tok.t = "b" ->
                    WordAt(s, i - 1) # WordAt(s, i) /\ MatchAt(s, i, pattern, k + 1)

\* re.search(pattern, s, re.IGNORECASE) finds a match
re_search(pattern, s) == \E i \in 1..(Len(s) + 1) : MatchAt(s, i, pattern, 1)

MIN_QUERY_LENGTH == 3
MAX_QUERY_LENGTH == 500

sensitive_patterns == {
    <<TokB, [t |-> "lit", s |-> <<"p", "a", "s", "s", "w", "o", "r", "d">>], [t |-> "opt", s |-> <<"s">>], TokB>>,
    <<TokB, [t |-> "lit", s |-> <<"c", "r", "e", "d", "i", "t">>], TokWs0, [t |-> "lit", s |-> <<"c", "a", "r", "d">>], [t |-> "opt", s |-> <<"s">>], TokB>>,
    <<TokB, [t |-> "lit", s |-> <<"s", "o", "c", "i", "a", "l">>], TokWs0, [t |-> "lit", s |-> <<"s", "e", "c", "u", "r", "i", "t", "y">>], TokB>>,
    <<TokB, [t |-> "lit", s |-> <<"h", "a", "c", "k">>], [t |-> "opt", s |-> <<"i", "n", "g">>], TokB>>,
    <<TokB, [t |-> "lit", s |-> <<"e", "x", "p", "l", "o", "i", "t">>], TokB>>,
    <<TokB, [t |-> "lit", s |-> <<"a", "t", "t", "a", "c", "k">>], TokB>>,
    <<TokB, [t |-> "lit", s |-> <<"i", "l", "l", "e", "g", "a", "l">>], TokB>>,
    <<TokB, [t |-> "lit", s |-> <<"u", "n", "e", "t", "h", "i", "c", "a", "l">>], TokB>> }

TooShort_Untrimmed(query) == Len(query) < MIN_QUERY_LENGTH

\* not query or len(query.strip()) < 3
TooShort(query) == Len(query) = 0 \/ Len(Strip(query)) < MIN_QUERY_LENGTH

\* input_validator; check_financial_relevance does not change its result
input_validator(query) ==
    IF TooShort(query) THEN [is_valid |-> FALSE, message |-> "too short"]
    ELSE IF Len(query) > MAX_QUERY_LENGTH THEN [is_valid |-> FALSE, message |-> "too long"]
    ELSE IF \E pattern \in sensitive_patterns : re_search(pattern, query)
         THEN [is_valid |-> FALSE, message |-> "sensitive"]
    ELSE [is_valid |-> TRUE, message |-> ""]

MIN_ANSWER_LENGTH == 10

harmful_patterns == {
    <<TokB, [t |-> "lit", s |-> <<"h", "o", "w">>], TokWs1, [t |-> "lit", s |-> <<"t", "o">>], TokWs1, [t |-> "lit", s |-> <<"h", "a", "c", "k">>], TokB>>,
    <<TokB, [t |-> "lit", s |-> <<"h", "o", "w">>], TokWs1, [t |-> "lit", s |-> <<"t", "o">>], TokWs1, [t |-> "lit", s |-> <<"e", "x", "p", "l", "o", "i", "t">>], TokB>>,
    <<TokB, [t |-> "lit", s |-> <<"h", "o", "w">>], TokWs1, [t |-> "lit", s |-> <<"t", "o">>], TokWs1, [t |-> "lit", s |-> <<"a", "t", "t", "a", "c", "k">>], TokB>>,
    <<TokB, [t |-> "lit", s |-> <<"i", "l", "l", "e", "g", "a", "l">>], TokWs1, TokW1, TokWs1, [t |-> "lit", s |-> <<"t", "o">>], TokB>>,
    <<TokB, [t |-> "lit", s |-> <<"u", "n", "e", "t", "h", "i", "c", "a", "l">>], TokWs1, TokW1, TokWs1, [t |-> "lit", s |-> <<"t", "o">>], TokB>> }

NO_MEANINGFUL_ANSWER ==
    <<"I", " ", "c", "o", "u", "l", "d", "n", "'", "t", " ", "g", "e", "n", "e", "r", "a",
      "t", "e", " ", "a", " ", "m", "e", "a", "n", "i", "n", "g", "f", "u", "l", " ", "a",
      "n", "s", "w", "e", "r", " ", "t", "o", " ", "y", "o", "u", "r", " ", "q", "u", "e",
      "s", "t", "i", "o", "n", ".", " ", "P", "l", "e", "a", "s", "e", " ", "t", "r", "y",
      " ", "r", "e", "p", "h", "r", "a", "s", "i", "n", "g", " ", "o", "r", " ", "a", "s",
      "k", " ", "a", " ", "d", "i", "f", "f", "e", "r", "e", "n", "t", " ", "q", "u", "e",
      "s", "t", "i", "o", "n", ".">>

HARMFUL_REFUSAL ==
    <<"I", " ", "a", "p", "o", "l", "o", "g", "i", "z", "e", ",", " ", "b", "u", "t", " ",
      "I", " ", "c", "a", "n", "n", "o", "t", " ", "p", "r", "o", "v", "i", "d", "e", " ",
      "i", "n", "f", "o", "r", "m", "a", "t", "i", "o", "n", " ", "t", "h", "a", "t", " ",
      "c", "o", "u", "l", "d", " ", "b", "e", " ", "u", "s", "e", "d", " ", "f", "o", "r",
      " ", "h", "a", "r", "m", "f", "u", "l", " ", "p", "u", "r", "p", "o", "s", "e", "s",
      ".">>

DISCLAIMER ==
    <<"\n", "\n", "*", "*", "D", "i", "s", "c", "l", "a", "i", "m", "e", "r", "*", "*",
      ":", " ", "T", "h", "i", "s", " ", "r", "e", "s", "p", "o", "n", "s", "e", " ", "i",
      "s", " ", "f", "o", "r", " ", "i", "n", "f", "o", "r", "m", "a", "t", "i", "o", "n",
      "a", "l", " ", "p", "u", "r", "p", "o", "s", "e", "s", " ", "o", "n", "l", "y", " ",
      "a", "n", "d", " ", "d", "o", "e", "s", " ", "n", "o", "t", " ", "c", "o", "n", "s",
      "t", "i", "t", "u", "t", "e", " ", "f", "i", "n", "a", "n", "c", "i", "a", "l", " ",
      "a", "d", "v", "i", "c", "e", ".", " ", "A", "l", "w", "a", "y", "s", " ", "c", "o",
      "n", "s", "u", "l", "t", " ", "w", "i", "t", "h", " ", "a", " ", "q", "u", "a", "l",
      "i", "f", "i", "e", "d", " ", "f", "i", "n", "a", "n", "c", "i", "a", "l", " ", "p",
      "r", "o", "f", "e", "s", "s", "i", "o", "n", "a", "l", " ", "b", "e", "f", "o", "r",
      "e", " ", "m", "a", "k", "i", "n", "g", " ", "i", "n", "v", "e", "s", "t", "m", "e",
      "n", "t", " ", "d", "e", "c", "i", "s", "i", "o", "n", "s", ".">>

UNCERTAINTY_NOTE ==
    <<"N", "o", "t", "e", ":", " ", "T", "h", "e", "r", "e", " ", "i", "s", " ", "s", "o",
      "m", "e", " ", "u", "n", "c", "e", "r", "t", "a", "i", "n", "t", "y", " ", "i", "n",
      " ", "t", "h", "i", "s", " ", "a", "n", "s", "w", "e", "r", ".", " ", "P", "l", "e",
      "a", "s", "e", " ", "v", "e", "r", "i", "f", "y", " ", "w", "i", "t", "h", " ", "t",
      "h", "e", " ", "s", "o", "u", "r", "c", "e", " ", "d", "o", "c", "u", "m", "e", "n",
      "t", ".", "\n", "\n">>

ADVICE_MARKERS == {<<"f", "i", "n", "a", "n", "c", "i", "a", "l", " ", "a", "d", "v", "i", "c", "e">>,
    <<"i", "n", "v", "e", "s", "t", "m", "e", "n", "t", " ", "a", "d", "v", "i", "c", "e">>}

uncertainty_markers == {
    <<"m", "i", "g", "h", "t">>,
    <<"m", "a", "y">>,
    <<"c", "o", "u", "l", "d">>,
    <<"p", "o", "s", "s", "i", "b", "l", "y">>,
    <<"p", "e", "r", "h", "a", "p", "s">>,
    <<"I", " ", "t", "h", "i", "n", "k">>,
    <<"l", "i", "k", "e", "l", "y">> }

EXPLICIT_UNCERTAINTY == {<<"I", "'", "m", " ", "n", "o", "t", " ", "e", "n", "t", "i", "r", "e", "l", "y", " ", "s", "u", "r", "e">>,
    <<"I", "'", "m", " ", "u", "n", "c", "e", "r", "t", "a", "i", "n">>}

WithDisclaimer(answer) ==
    IF /\ \E m \in ADVICE_MARKERS : Contains(Lower(answer), m)
       /\ ~Contains(answer, DISCLAIMER)
    THEN answer \o DISCLAIMER ELSE answer

WithUncertaintyNote_AnyCount(answer) ==
    LET uncertainty_count ==
            Cardinality({m \in uncertainty_markers : Contains(Lower(answer), m)})
        explicit_uncertainty == \E e \in EXPLICIT_UNCERTAINTY : Contains(answer, e)
    IN  IF uncertainty_count >= 0 /\ ~explicit_uncertainty
        THEN UNCERTAINTY_NOTE \o answer ELSE answer

WithUncertaintyNote(answer) ==
    LET uncertainty_count ==
            Cardinality({m \in uncertainty_markers : Contains(Lower(answer), m)})
        explicit_uncertainty == \E e \in EXPLICIT_UNCERTAINTY : Contains(answer, e)
    IN  IF uncertainty_count >= 2 /\ ~explicit_uncertainty
        THEN UNCERTAINTY_NOTE \o answer ELSE answer

output_validator(answer) ==
    IF Len(answer) = 0 \/ Len(Strip(answer)) < MIN_ANSWER_LENGTH THEN NO_MEANINGFUL_ANSWER
    ELSE IF \E pattern \in harmful_patterns : re_search(pattern, answer) THEN HARMFUL_REFUSAL
    ELSE WithUncertaintyNote(WithDisclaimer(answer))

\* ------------------------------------------------------------ embeddings
Scale == 100
Dim == 2
ZeroVector == [d \in 1..Dim |-> 0]
Vectors == {ZeroVector, <<1, 0>>, <<-1, 0>>, <<3, 4>>, <<4, 3>>}

Array(rows) == [isNone |-> FALSE, rows |-> rows]

RECURSIVE SumTo(_, _)
SumTo(f, n) == IF n = 0 THEN 0 ELSE f[n] + SumTo(f, n - 1)

Dot(v1, v2) == SumTo([d \in 1..Len(v1) |-> v1[d] * v2[d]], Len(v1))

ISqrt(n) == CHOOSE k \in 0..n : k * k <= n /\ (k + 1) * (k + 1) > n

Norm(v) == ISqrt(Dot(v, v))

AllZero(v) == \A d \in 1..Len(v) : v[d] = 0

\* The zero-vector guard of cosine_similarity.
ZeroGuard(v1, v2) == AllZero(v1) \/ AllZero(v2)

cosine_similarity(v1, v2) ==
    IF ZeroGuard(v1, v2) THEN 0
    ELSE LET dot_product == Dot(v1, v2)
             norm_v1 == Norm(v1)
             norm_v2 == Norm(v2)
         IN  IF norm_v1 = 0 \/ norm_v2 = 0 THEN 0
             ELSE (dot_product * Scale) \div (norm_v1 * norm_v2)

\* generate_embeddings: model.encode gives one vector per chunk (encoded);
\* when the model cannot be loaded or inference raises, zeros of the same shape.
generate_embeddings_EmptyOnFailure(text_chunks, model_ok, encoded) ==
    IF model_ok THEN Array(encoded) ELSE Array(<<>>)

generate_embeddings(text_chunks, model_ok, encoded) ==
    IF model_ok THEN Array(encoded)
    ELSE Array([i \in 1..Len(text_chunks) |-> ZeroVector])

embed_query(model_ok, encoded) ==
    IF model_ok THEN encoded ELSE ZeroVector

\* ------------------------------------------------------------- retriever
\* list.sort(key=score, reverse=True): descending, equal scores keep their order.
InsertDesc_Unstable(sorted, e) ==
    LET before == {j \in 1..Len(sorted) : sorted[j][2] > e[2]}
        k == Cardinality(before)
    IN  SubSeq(sorted, 1, k) \o <<e>> \o SubSeq(sorted, k + 1, Len(sorted))

InsertDesc(sorted, e) ==
    LET before == {j \in 1..Len(sorted) : sorted[j][2] >= e[2]}
        k == Cardinality(before)
    IN  SubSeq(sorted, 1, k) \o <<e>> \o SubSeq(sorted, k + 1, Len(sorted))

RECURSIVE SortDescFrom(_, _, _)
SortDescFrom(s, n, acc) ==
    IF n > Len(s) THEN acc ELSE SortDescFrom(s, n + 1, InsertDesc(acc, s[n]))

SortDesc(s) == SortDescFrom(s, 1, <<>>)

PassesThreshold(score, similarity_threshold) == score >= similarity_threshold

FilterSimilarities(s, similarity_threshold) ==
    SelectSeq(s, LAMBDA e : PassesThreshold(e[2], similarity_threshold))

TopSimilarities_OffByOne(filtered, top_k) == SlicePrefix(filtered, top_k + 1)

TopSimilarities(filtered, top_k) == SlicePrefix(filtered, top_k)

ContextAt(docs, top, j) == docs[top[j][1]]

NothingToSearch_AbsentOnly(docs, embs) == embs.isNone

\* not documents or embeddings is None or len(documents) == 0
NothingToSearch(docs, embs) == Len(docs) = 0 \/ embs.isNone

retrieve_context(docs, embs, q_ok, q_encoded, top_k, similarity_threshold) ==
    IF NothingToSearch(docs, embs)
    THEN [contexts |-> <<>>, indices |-> <<>>, embedded |-> FALSE]
    ELSE LET query_embedding == embed_query(q_ok, q_encoded)
             similarities == [i \in 1..Len(embs.rows) |->
                                <<i, cosine_similarity(query_embedding, embs.rows[i])>>]
             sorted == SortDesc(similarities)
             filtered == FilterSimilarities(sorted, similarity_threshold)
             top == TopSimilarities(filtered, top_k)
         IN  [contexts |-> [j \in 1..Len(top) |-> ContextAt(docs, top, j)],
              indices  |-> [j \in 1..Len(top) |-> top[j][1]],
              embedded |-> TRUE]

rerank_contexts(contexts, context_indices) ==
    [contexts |-> contexts, indices |-> context_indices]

\* ---- the retrieval pipeline: embed a chunk list, retrieve, rerank
DocPool == <<"chunk-1", "chunk-2", "chunk-3", "chunk-4", "chunk-5">>
Thresholds == {-20, 0, 20, 96}
DEFAULT_TOP_K == 3
DEFAULT_THRESHOLD == 20

\* What model.encode may yield for one text, or the failure of the model.
EncodeOutcomes ==
    {[ok |-> TRUE, enc |-> v] : v \in Vectors} \cup {[ok |-> FALSE, enc |-> ZeroVector]}

NoCall == [made |-> FALSE]
NoResult == [contexts |-> <<>>, indices |-> <<>>, embedded |-> FALSE]

RetrInit ==
    /\ \E n \in 0..MaxDocs : documents = SubSeq(DocPool, 1, n)
    /\ r_embeddings = None
    /\ r_call = NoCall
    /\ r_result = NoResult
    /\ rpc = "loaded"

OutsideRetr == <<chunkVars, tableVars, docVars, ansVars, sessVars>>
OutsideChunk == <<retrVars, tableVars, docVars, ansVars, sessVars>>
OutsideTable == <<retrVars, chunkVars, docVars, ansVars, sessVars>>
OutsideDoc == <<retrVars, chunkVars, tableVars, ansVars, sessVars>>
OutsideAns == <<retrVars, chunkVars, tableVars, docVars, sessVars>>
OutsideSess == <<retrVars, chunkVars, tableVars, docVars, ansVars>>

IdleChunk ==
    /\ extracted_text = <<>> /\ chunk_size = DEFAULT_CHUNK_SIZE /\ overlap = DEFAULT_OVERLAP
    /\ current_pos = 0 /\ chunks = <<>> /\ spans = <<>> /\ cpc = "idle"

R_GenerateEmbeddings ==
    /\ rpc = "loaded"
    /\ \E model_ok \in BOOLEAN :
         \E encoded \in [1..Len(documents) -> Vectors] :
            /\ model_ok \/ \A i \in 1..Len(documents) : encoded[i] = ZeroVector
            /\ r_embeddings' = generate_embeddings(documents, model_ok, encoded)
            /\ r_call' = [made |-> FALSE, docs_ok |-> model_ok]
    /\ rpc' = "embedded"
    /\ UNCHANGED <<documents, r_result>>
    /\ UNCHANGED OutsideRetr

R_RetrieveContext ==
    /\ rpc \in {"loaded", "embedded"}
    /\ \E q \in EncodeOutcomes, top_k \in 0..MaxTopK, similarity_threshold \in Thresholds :
         /\ r_call' = [made |-> TRUE,
                       docs_ok |-> IF rpc = "embedded" THEN r_call.docs_ok ELSE TRUE,
                       q_ok |-> q.ok, q_encoded |-> q.enc,
                       top_k |-> top_k, similarity_threshold |-> similarity_threshold]
         /\ r_result' = retrieve_context(documents, r_embeddings, q.ok, q.enc,
                                         top_k, similarity_threshold)
    /\ rpc' = "retrieved"
    /\ UNCHANGED <<documents, r_embeddings>>
    /\ UNCHANGED OutsideRetr

R_Rerank ==
    /\ rpc = "retrieved"
    /\ LET rr == rerank_contexts(r_result.contexts, r_result.indices)
       IN  r_result' = [r_result EXCEPT !.contexts = rr.contexts, !.indices = rr.indices]
    /\ rpc' = "reranked"
    /\ UNCHANGED <<documents, r_embeddings, r_call>>
    /\ UNCHANGED OutsideRetr

RetrNext == R_GenerateEmbeddings \/ R_RetrieveContext \/ R_Rerank


\* ---- properties of retrieval
Retrieved == rpc \in {"retrieved", "reranked"}
Searched == Retrieved /\ r_result.embedded

\* the score the code computed for chunk i of the last call
ScoreOf(i) ==
    cosine_similarity(embed_query(r_call.q_ok, r_call.q_encoded), r_embeddings.rows[i])

\* C11: retrieve_context returns ([], []) and does not embed the query when
\* the chunk list is empty or the vector array is None.
C11_NothingToSearch ==
    (Retrieved /\ (Len(documents) = 0 \/ r_embeddings.isNone)) =>
        /\ r_result.contexts = <<>>
        /\ r_result.indices = <<>>
        /\ ~r_result.embedded

\* chunks without vectors, asked with a query and parameters that would let
\* every chunk through
C11_Witness ==
    /\ Retrieved
    /\ Len(documents) >= 2 /\ r_embeddings.isNone
    /\ r_call.q_ok /\ r_call.top_k > 0 /\ r_call.similarity_threshold < 0
    /\ r_result.contexts = <<>>

\* an empty chunk list with its (empty) vector array
C11_WitnessEmpty ==
    /\ Retrieved
    /\ Len(documents) = 0 /\ ~r_embeddings.isNone
    /\ r_result.contexts = <<>> /\ ~r_result.embedded

\* C1: retrieve_context returns at most top_k chunks and every returned
\* chunk's cosine similarity to the query is at least similarity_threshold.
C1_TopKAndThreshold ==
    Retrieved =>
        /\ Len(r_result.contexts) <= r_call.top_k
        /\ Len(r_result.indices) = Len(r_result.contexts)
        /\ \A j \in 1..Len(r_result.indices) :
              ScoreOf(r_result.indices[j]) >= r_call.similarity_threshold

\* a call where the threshold removed a chunk and top_k cut the rest short
C1_Witness ==
    /\ Searched
    /\ r_call.top_k > 0
    /\ Len(r_result.contexts) = r_call.top_k
    /\ \E i \in 1..Len(documents) : ScoreOf(i) < r_call.similarity_threshold
    /\ Cardinality({i \in 1..Len(documents) :
                      ScoreOf(i) >= r_call.similarity_threshold}) > r_call.top_k

\* C2: the result is in descending score order, equal scores stay in chunk
\* order, contexts[j] is documents[indices[j]], and no index is repeated.
C2_OrderedAndPaired ==
    Retrieved =>
        /\ \A j, k \in 1..Len(r_result.indices) :
              j < k =>
                LET sj == ScoreOf(r_result.indices[j])
                    sk == ScoreOf(r_result.indices[k])
                IN  /\ sj >= sk
                    /\ sj = sk => r_result.indices[j] < r_result.indices[k]
                    /\ r_result.indices[j] # r_result.indices[k]
        /\ Len(r_result.contexts) = Len(r_result.indices)
        /\ \A j \in 1..Len(r_result.indices) :
              /\ r_result.indices[j] \in 1..Len(documents)
              /\ r_result.contexts[j] = documents[r_result.indices[j]]

\* a result with a tie and with a later chunk ranked before an earlier one
C2_Witness ==
    /\ Searched
    /\ \E j, k \in 1..Len(r_result.indices) :
          j < k /\ ScoreOf(r_result.indices[j]) = ScoreOf(r_result.indices[k])
    /\ \E j, k \in 1..Len(r_result.indices) :
          j < k /\ r_result.indices[j] > r_result.indices[k]

\* ---- the prose chunking loop, from the cleaned text to the returned list
SmallAlphabet == {"a", " ", ".", "\n"}
SmallTexts ==
    {t \in UNION {[1..n -> SmallAlphabet] : n \in 0..MaxTextLen} : IsNormalized(t)}

\* long texts: three runs of letters joined by at most two boundaries
Separators == {<<>>, PARAGRAPH, <<".", " ">>, <<"?", " ">>}
LongTexts ==
    {t \in {Rep("x", a) \o s1 \o Rep("x", b) \o s2 \o Rep("x", c) :
              a \in {400, 600, 998}, s1 \in Separators, b \in {0, 300, 1100},
              s2 \in Separators, c \in {0, 500}} : IsNormalized(t)}

ChunkInit ==
    /\ \/ /\ extracted_text \in SmallTexts
          /\ chunk_size \in 1..MaxChunkSize
          /\ overlap \in 0..MaxOverlap
       \/ /\ extracted_text \in LongTexts
          /\ chunk_size = DEFAULT_CHUNK_SIZE
          /\ overlap = DEFAULT_OVERLAP
    /\ current_pos = 0
    /\ chunks = <<>>
    /\ spans = <<>>
    /\ cpc = "loop"

\* one iteration of the while loop, with its break
C_Iterate ==
    /\ cpc = "loop"
    /\ current_pos < Len(extracted_text)
    /\ LET st == ChunkStep(extracted_text, current_pos, chunk_size, overlap)
       IN  /\ IF st.chunk # <<>>
              THEN /\ chunks' = Append(chunks, st.chunk)
                   /\ spans' = Append(spans, <<current_pos, st.chunk_end>>)
              ELSE UNCHANGED <<chunks, spans>>
           /\ current_pos' = st.next_pos
           /\ cpc' = IF st.next_pos >= Len(extracted_text) THEN "done" ELSE "loop"
    /\ UNCHANGED <<extracted_text, chunk_size, overlap>>
    /\ UNCHANGED OutsideChunk

\* the loop condition is false on entry
C_Exit ==
    /\ cpc = "loop"
    /\ current_pos >= Len(extracted_text)
    /\ cpc' = "done"
    /\ UNCHANGED <<extracted_text, chunk_size, overlap, current_pos, chunks, spans>>
    /\ UNCHANGED OutsideChunk

ChunkNext == C_Iterate \/ C_Exit

\* ---- dataframe_to_chunks, statement by statement
S_int64 == <<"i", "n", "t", "6", "4">>
S_Sheet1 == <<"S", "h", "e", "e", "t", "1">>
S_Sheet2 == <<"S", "h", "e", "e", "t", "2">>
\* an object column with a missing value in row 4, and an integer column
ColumnPool ==
    <<[name |-> <<"i", "t", "e", "m">>, dtype |-> S_object],
      [name |-> <<"r", "e", "v", "e", "n", "u", "e">>, dtype |-> S_int64]>>
RowPool ==
    <<
        <<<<"s", "a", "l", "e", "s">>, <<"1", "0", "0">>>>,
        <<<<"c", "o", "s", "t", "s">>, <<"1", "5", "0">>>>,
        <<<<"t", "a", "x", "e", "s">>, <<"2", "0", "0">>>>,
        <<NaN, <<"2", "4", "0">>>>,
        <<<<"s", "a", "l", "e", "s">>, <<"1", "0", "0">>>>,
        <<<<"f", "e", "e", "s">>, <<"3", "0", "0">>>>,
        <<<<"r", "e", "n", "t">>, <<"3", "1", "0">>>>,
        <<<<"w", "a", "g", "e", "s">>, <<"3", "2", "0">>>> >>

TableInit ==
    /\ \E n \in 0..MaxRows : df = [columns |-> ColumnPool, rows |-> SubSeq(RowPool, 1, n)]
    /\ sheet_name \in {NoSheet, S_Sheet1}
    /\ max_rows_per_chunk \in 1..MaxPerChunk
    /\ t_i = 0
    /\ t_chunks = <<>>
    /\ t_groups = <<>>
    /\ tpc = "start"

T_Schema ==
    /\ tpc = "start"
    /\ LET schema == SchemaGroup(df, sheet_name)
       IN  /\ t_chunks' = Append(t_chunks, FormatSchema(schema))
           /\ t_groups' = Append(t_groups, schema)
    /\ t_i' = 0
    /\ tpc' = "rows"
    /\ UNCHANGED <<df, sheet_name, max_rows_per_chunk>>
    /\ UNCHANGED OutsideTable

T_RowGroup ==
    /\ tpc = "rows"
    /\ t_i < Len(df.rows)
    /\ LET group == RowGroup(df, t_i, max_rows_per_chunk, sheet_name)
       IN  /\ t_chunks' = Append(t_chunks, FormatRowGroup(group))
           /\ t_groups' = Append(t_groups, group)
    /\ t_i' = t_i + max_rows_per_chunk
    /\ UNCHANGED <<df, sheet_name, max_rows_per_chunk, tpc>>
    /\ UNCHANGED OutsideTable

T_Return ==
    /\ tpc = "rows"
    /\ t_i >= Len(df.rows)
    /\ tpc' = "done"
    /\ UNCHANGED <<df, sheet_name, max_rows_per_chunk, t_i, t_chunks, t_groups>>
    /\ UNCHANGED OutsideTable

TableNext == T_Schema \/ T_RowGroup \/ T_Return

\* ---- process_document on one file
SupportedExts == {".pdf", ".csv", ".xlsx", ".xls"}
Exts == {".pdf", ".PDF", ".csv", ".xlsx", ".xls", ".txt", ".docx", ""}

T_RevenueRose == <<"R","e","v","e","n","u","e"," ","r","o","s","e",".">>
T_CostsFell == <<"C","o","s","t","s"," ","f","e","l","l",".">>
PageSets == {<<>>, << <<>> >>, <<T_RevenueRose>>, <<T_RevenueRose, T_CostsFell>>}
TableSets ==
    {<<>>,
     <<[sheet |-> S_Sheet1, table |-> [columns |-> ColumnPool, rows |-> SubSeq(RowPool, 1, 3)]]>>,
     <<[sheet |-> S_Sheet1, table |-> [columns |-> ColumnPool, rows |-> SubSeq(RowPool, 1, 3)]],
       [sheet |-> S_Sheet2, table |-> [columns |-> ColumnPool, rows |-> <<>>]]>>}

AllFiles == [ext : Exts, readable : BOOLEAN, pages : PageSets, tables : TableSets]

NoFile == [ext |-> "", readable |-> FALSE, pages |-> <<>>, tables |-> <<>>]

DocInit ==
    /\ d_file \in AllFiles
    /\ d_result = Returned(<<>>)
    /\ dpc = "ready"

D_ProcessDocument ==
    /\ dpc = "ready"
    /\ d_result' = process_document(d_file)
    /\ dpc' = "done"
    /\ UNCHANGED d_file
    /\ UNCHANGED OutsideDoc

DocNext == D_ProcessDocument

IdleDoc == d_file = NoFile /\ d_result = Returned(<<>>) /\ dpc = "idle"

\* ---- generate_answer followed by output_validator
K_Mixed ==
    <<"R", "e", "v", "e", "n", "u", "e", " ", "r", "o", "s", "e", ".", " ", "R", "e", "v",
      "e", "n", "u", "e", " ", "u", "p", ".", " ", "C", "o", "s", "t", "s", " ", "f", "e",
      "l", "l", " ", "a", " ", "l", "o", "t", ".">>
K_Repeat ==
    <<"R", "e", "v", "e", "n", "u", "e", " ", "f", "e", "l", "l", ".", " ", "R", "e", "v",
      "e", "n", "u", "e", " ", "g", "r", "e", "w", ".", " ", "R", "e", "v", "e", "n", "u",
      "e", " ", "r", "o", "s", "e">>
K_Three ==
    <<"R", "e", "v", "e", "n", "u", "e", " ", "h", "e", "l", "d", ".", " ", "R", "e", "v",
      "e", "n", "u", "e", " ", "d", "o", "u", "b", "l", "e", "d", ".", " ", "R", "e", "v",
      "e", "n", "u", "e", " ", "h", "a", "l", "v", "e", "d", ".", " ">>
K_Short ==
    <<"C", "o", "s", "t", "s", " ", "f", "e", "l", "l", ".", " ", "N", "e", "t", " ", "l",
      "o", "s", "s">>
K_Upper ==
    <<" ", "R", "E", "V", "E", "N", "U", "E", " ", "m", "a", "y", " ", "r", "i", "s", "e",
      ".", "\n", "I", "t", " ", "l", "i", "k", "e", "l", "y", " ", "w", "i", "l", "l">>
Q_Revenue ==
    <<"W", "h", "a", "t", " ", "i", "s", " ", "t", "h", "e", " ", "r", "e", "v", "e", "n",
      "u", "e">>
Q_Costs ==
    <<"c", "o", "s", "t", "s">>
Q_Stopwords ==
    <<"i", "s", " ", "t", "h", "e">>
Q_Both ==
    <<"R", "e", "v", "e", "n", "u", "e", " ", "a", "n", "d", " ", "c", "o", "s", "t", "s">>
Q_Dividend ==
    <<"d", "i", "v", "i", "d", "e", "n", "d">>

ContextPool == {K_Mixed, K_Repeat, K_Three, K_Short, K_Upper}
QueryPool == {Q_Revenue, Q_Costs, Q_Stopwords, Q_Both, Q_Dividend}

AnsInit ==
    /\ a_query \in QueryPool
    /\ a_contexts \in UNION {[1..n -> ContextPool] : n \in 0..MaxContexts}
    /\ a_none \in BOOLEAN
    /\ a_none => a_contexts = <<>>
    /\ a_result = [answer |-> <<>>, relevant_sentences |-> <<>>]
    /\ a_validated = <<>>
    /\ apc = "ready"

A_GenerateAnswer ==
    /\ apc = "ready"
    /\ a_result' = generate_answer(a_query, IF a_none THEN None ELSE List(a_contexts))
    /\ apc' = "generated"
    /\ UNCHANGED <<a_query, a_contexts, a_none, a_validated>>
    /\ UNCHANGED OutsideAns

A_ValidateOutput ==
    /\ apc = "generated"
    /\ a_validated' = output_validator(a_result.answer)
    /\ apc' = "validated"
    /\ UNCHANGED <<a_query, a_contexts, a_none, a_result>>
    /\ UNCHANGED OutsideAns

AnsNext == A_GenerateAnswer \/ A_ValidateOutput

IdleAns ==
    /\ a_query = <<>> /\ a_contexts = <<>> /\ a_none = FALSE
    /\ a_result = [answer |-> <<>>, relevant_sentences |-> <<>>]
    /\ a_validated = <<>> /\ apc = "idle"

\* ---- the session: one action per user interaction, each a run of main.py
W_Revenue == <<"r", "e", "v", "e", "n", "u", "e">>
W_Costs == <<"c", "o", "s", "t", "s">>

\* model.encode of the pretrained sentence model: the same text always gives
\* the same vector
Encode(text) ==
    LET revenue == Contains(Lower(text), W_Revenue)
        costs == Contains(Lower(text), W_Costs)
    IN  IF revenue /\ costs THEN <<3, 4>>
        ELSE IF revenue THEN <<1, 0>>
        ELSE IF costs THEN <<0, 1>>
        ELSE <<-1, 0>>

F_Report == [ext |-> ".pdf", readable |-> TRUE, pages |-> <<T_RevenueRose>>, tables |-> <<>>]
F_Costs == [ext |-> ".PDF", readable |-> TRUE, pages |-> <<T_CostsFell>>, tables |-> <<>>]
F_Csv ==
    [ext |-> ".csv", readable |-> TRUE, pages |-> <<>>,
     tables |-> <<[sheet |-> NoSheet,
                   table |-> [columns |-> ColumnPool, rows |-> SubSeq(RowPool, 1, 3)]]>>]
F_Scanned == [ext |-> ".pdf", readable |-> TRUE, pages |-> << <<>> >>, tables |-> <<>>]
F_Broken == [ext |-> ".csv", readable |-> FALSE, pages |-> <<>>, tables |-> <<>>]
SessionFiles == {F_Report, F_Costs, F_Csv, F_Scanned, F_Broken}

Q_Hi == <<"h", "i">>
Q_Padded == <<" ", " ", "a", " ", " ">>
Q_Hack == <<"H", "o", "w", " ", "t", "o", " ", "h", "a", "c", "k", " ", "r", "e", "v", "e", "n", "u", "e">>
Q_TooLong == Rep("x", MAX_QUERY_LENGTH + 1)
SessionQueries == {Q_Revenue, Q_Costs, Q_Hi, Q_Padded, Q_Hack, Q_TooLong}

NoRun ==
    [kind |-> "none", ingest |-> "none", replaced |-> FALSE, main |-> FALSE,
     question |-> <<>>, validated |-> FALSE, retrieved |-> FALSE, generated |-> FALSE,
     before |-> [last_question |-> <<>>, last_answer |-> <<>>, context_used |-> <<>>]]

SessInit ==
    /\ document_chunks = <<>>
    /\ embeddings = None
    /\ file_uploaded = FALSE
    /\ last_question = <<>>
    /\ last_answer = <<>>
    /\ context_used = <<>>
    /\ uploaded_file = NoFile
    /\ question = <<>>
    /\ s_run = NoRun
    /\ spc = "idle"

\* if question and question != st.session_state.last_question
ShouldProcess(q, previous) == Len(q) > 0 /\ q # previous

\* One run of the script with the widget values (file, q), the Clear Document
\* button pressed or not, and the embedding model working or not for the
\* chunks (docs_ok) and for the query (q_ok).
Ingested_AnyFile(file, new_chunks) == file # NoFile

\* if uploaded_file is not None: ... if chunks:
Ingested(file, new_chunks) == file # NoFile /\ Len(new_chunks) > 0

\* The run from line 58 on, new_chunks being what process_document returned
\* for the file of the uploader.
RunWithChunks(kind, file, clicked, q, docs_ok, q_ok, new_chunks) ==
    LET ingested == Ingested(file, new_chunks)
        chunks1 == IF ingested THEN new_chunks ELSE document_chunks
        embeddings1 ==
            IF ingested
            THEN generate_embeddings(new_chunks, docs_ok,
                                     [i \in 1..Len(new_chunks) |-> Encode(new_chunks[i])])
            ELSE embeddings
        uploaded1 == ingested \/ file_uploaded
        ran == [kind |-> kind,
                ingest |-> IF file = NoFile THEN "none"
                           ELSE IF ingested THEN "ok" ELSE "failed",
                replaced |-> ingested /\ new_chunks # document_chunks,
                main |-> FALSE, question |-> q,
                validated |-> FALSE, retrieved |-> FALSE, generated |-> FALSE,
                before |-> [last_question |-> last_question, last_answer |-> last_answer,
                            context_used |-> context_used]]
    IN  /\ uploaded_file' = file
        /\ IF uploaded1 /\ clicked
           THEN \* Clear Document, then st.experimental_rerun()
                /\ document_chunks' = <<>>
                /\ embeddings' = None
                /\ file_uploaded' = FALSE
                /\ last_question' = <<>>
                /\ last_answer' = <<>>
                /\ context_used' = <<>>
                /\ question' = q
                /\ s_run' = ran
                /\ spc' = "rerun"
           ELSE /\ document_chunks' = chunks1
                /\ embeddings' = embeddings1
                /\ file_uploaded' = uploaded1
                /\ spc' = "idle"
                /\ IF ~uploaded1
                   THEN \* the main area only shows the hint; no text_input
                        /\ question' = <<>>
                        /\ s_run' = ran
                        /\ UNCHANGED <<last_question, last_answer, context_used>>
                   ELSE /\ question' = q
                        /\ IF ShouldProcess(q, last_question)
                           THEN LET check == input_validator(q)
                                IN  IF check.is_valid
                                    THEN LET found == retrieve_context(chunks1, embeddings1, q_ok,
                                                        Encode(q), DEFAULT_TOP_K, DEFAULT_THRESHOLD)
                                             answer == generate_answer(q, List(found.contexts)).answer
                                         IN  /\ last_question' = q
                                             /\ last_answer' = output_validator(answer)
                                             /\ context_used' =
                                                  [j \in 1..Len(found.indices) |->
                                                      chunks1[found.indices[j]]]
                                             /\ s_run' = [ran EXCEPT !.main = TRUE,
                                                              !.validated = TRUE,
                                                              !.retrieved = TRUE,
                                                              !.generated = TRUE]
                                    ELSE /\ s_run' = [ran EXCEPT !.main = TRUE,
                                                              !.validated = TRUE]
                                         /\ UNCHANGED <<last_question, last_answer, context_used>>
                           ELSE /\ s_run' = [ran EXCEPT !.main = TRUE]
                                /\ UNCHANGED <<last_question, last_answer, context_used>>
        /\ UNCHANGED OutsideSess

ScriptRun(kind, file, clicked, q, docs_ok, q_ok) ==
    RunWithChunks(kind, file, clicked, q, docs_ok, q_ok,
                  IF file = NoFile THEN <<>> ELSE process_document(file).chunks)

\* the user picks a file in the uploader
S_Upload ==
    /\ spc = "idle"
    /\ \E file \in SessionFiles, docs_ok, q_ok \in BOOLEAN :
         /\ file # uploaded_file
         /\ ScriptRun("upload", file, FALSE, question, docs_ok, q_ok)

\* the user removes the file from the uploader
S_RemoveFile ==
    /\ spc = "idle"
    /\ uploaded_file # NoFile
    /\ \E q_ok \in BOOLEAN : ScriptRun("remove", NoFile, FALSE, question, TRUE, q_ok)

\* the user submits a text in the question box, which is there only while a
\* document is loaded
S_Ask ==
    /\ spc = "idle"
    /\ file_uploaded
    /\ \E q \in SessionQueries \cup {<<>>}, docs_ok, q_ok \in BOOLEAN :
         /\ q # question
         /\ ScriptRun("ask", uploaded_file, FALSE, q, docs_ok, q_ok)

\* the user presses Clear Document, shown only while a document is loaded
S_ClearDocument ==
    /\ spc = "idle"
    /\ file_uploaded
    /\ \E docs_ok \in BOOLEAN : ScriptRun("clear", uploaded_file, TRUE, question, docs_ok, TRUE)

\* the run started by st.experimental_rerun(); the question box may or may
\* not have kept its text
S_Rerun ==
    /\ spc = "rerun"
    /\ \E q \in {question, <<>>}, docs_ok, q_ok \in BOOLEAN :
         ScriptRun("rerun", uploaded_file, FALSE, q, docs_ok, q_ok)

SessNext == S_Upload \/ S_RemoveFile \/ S_Ask \/ S_ClearDocument \/ S_Rerun

IdleSess ==
    /\ document_chunks = <<>> /\ embeddings = None /\ file_uploaded = FALSE
    /\ last_question = <<>> /\ last_answer = <<>> /\ context_used = <<>>
    /\ uploaded_file = NoFile /\ question = <<>> /\ s_run = NoRun /\ spc = "off"

\* ---- the specifications
IdleRetr ==
    /\ documents = <<>> /\ r_embeddings = None /\ r_call = NoCall
    /\ r_result = NoResult /\ rpc = "idle"

IdleTable ==
    /\ df = [columns |-> <<>>, rows |-> <<>>] /\ sheet_name = NoSheet
    /\ max_rows_per_chunk = DEFAULT_MAX_ROWS_PER_CHUNK
    /\ t_i = 0 /\ t_chunks = <<>> /\ t_groups = <<>> /\ tpc = "idle"

InitRetrieve == RetrInit /\ IdleChunk /\ IdleTable /\ IdleDoc /\ IdleAns /\ IdleSess
SpecRetrieve == InitRetrieve /\ [][RetrNext]_vars
InitChunk == ChunkInit /\ IdleRetr /\ IdleTable /\ IdleDoc /\ IdleAns /\ IdleSess
SpecChunk == InitChunk /\ [][ChunkNext]_vars
\* the small texts, and one long text per boundary kind
BoundaryTexts == {Rep("x", 600) \o sep \o Rep("x", 500) : sep \in Separators}
InitChunkLive ==
    /\ \/ /\ extracted_text \in SmallTexts
          /\ chunk_size \in 1..MaxChunkSize
          /\ overlap \in 0..MaxOverlap
       \/ /\ extracted_text \in BoundaryTexts
          /\ chunk_size = DEFAULT_CHUNK_SIZE
          /\ overlap = DEFAULT_OVERLAP
    /\ current_pos = 0 /\ chunks = <<>> /\ spans = <<>> /\ cpc = "loop"
    /\ IdleRetr /\ IdleTable /\ IdleDoc /\ IdleAns /\ IdleSess
\* the loop is sequential code: an iteration that can run does run
SpecChunkLive == InitChunkLive /\ [][ChunkNext]_vars /\ WF_vars(ChunkNext)
InitTable == TableInit /\ IdleRetr /\ IdleChunk /\ IdleDoc /\ IdleAns /\ IdleSess
SpecTable == InitTable /\ [][TableNext]_vars
InitDoc == DocInit /\ IdleRetr /\ IdleChunk /\ IdleTable /\ IdleAns /\ IdleSess
SpecDoc == InitDoc /\ [][DocNext]_vars
Init == SessInit /\ IdleRetr /\ IdleChunk /\ IdleTable /\ IdleDoc /\ IdleAns
Spec == Init /\ [][SessNext]_vars
InitAnswer == AnsInit /\ IdleRetr /\ IdleChunk /\ IdleTable /\ IdleDoc /\ IdleSess
SpecAnswer == InitAnswer /\ [][AnsNext]_vars

\* ---- properties of process_document
\* C3: process_document on a file whose extension is not .pdf, .csv, .xlsx or
\* .xls fails with an UnsupportedFormat error, which the caller can tell apart
\* from the empty chunk list of a parse failure.
C3_UnsupportedFormatRaised ==
    (dpc = "done" /\ LowerExt(d_file.ext) \notin SupportedExts) =>
        /\ d_result.raised = "UnsupportedFormat"
        /\ \A f \in AllFiles :
              LowerExt(f.ext) \in SupportedExts =>
                [chunks |-> d_result.chunks, raised |-> d_result.raised]
                    # [chunks |-> process_document(f).chunks,
                       raised |-> process_document(f).raised]

\* ---- properties of the tabular chunker
RowGroupCount == Len(t_chunks) - 1

StartsWith(x, prefix) == Len(x) >= Len(prefix) /\ SubSeq(x, 1, Len(prefix)) = prefix

\* C6: dataframe_to_chunks emits one schema chunk first, then
\* ceil(N / max_rows_per_chunk) row-group chunks in row order, each of at most
\* max_rows_per_chunk rows; every row is in exactly one row-group chunk and
\* the labelled ranges are contiguous and partition 1..N.
C6_RowGroupsPartitionRows ==
    tpc = "done" =>
        LET N == Len(df.rows)
        IN  /\ Len(t_chunks) >= 1
            /\ Len(t_groups) = Len(t_chunks)
            /\ t_groups[1].kind = "schema"
            /\ t_groups[1].total_rows = N
            /\ StartsWith(t_chunks[1], S_SchemaInformation)
            /\ RowGroupCount = (N + max_rows_per_chunk - 1) \div max_rows_per_chunk
            /\ \A j \in 2..Len(t_chunks) :
                  /\ t_groups[j].kind = "rows"
                  /\ Len(t_groups[j].rows) \in 1..max_rows_per_chunk
                  /\ Len(t_groups[j].rows) = t_groups[j].last - t_groups[j].first + 1
                  /\ t_groups[j].first = IF j = 2 THEN 1 ELSE t_groups[j-1].last + 1
                  /\ j = Len(t_chunks) => t_groups[j].last = N
                  /\ StartsWith(t_chunks[j],
                        S_DataRows \o Decimal(t_groups[j].first) \o S_To
                            \o Decimal(t_groups[j].last))
                  /\ Len(SplitOn(t_chunks[j], NL)) = Len(t_groups[j].rows) + 3
            /\ \A k \in 1..N :
                  LET holders == {j \in 2..Len(t_chunks) :
                                    t_groups[j].first <= k /\ k <= t_groups[j].last}
                  IN  /\ Cardinality(holders) = 1
                      /\ \A j \in holders :
                            /\ t_groups[j].rows[k - t_groups[j].first + 1] = FillNaRow(df.rows[k])
                            /\ SplitOn(t_chunks[j], NL)[k - t_groups[j].first + 3]
                                  = Join(FillNaRow(df.rows[k]), <<",">>)

\* a table cut into several groups, the last one shorter than the others
C6_Witness ==
    /\ tpc = "done"
    /\ RowGroupCount >= 2
    /\ Len(df.rows) % max_rows_per_chunk # 0
    /\ Len(t_groups[Len(t_groups)].rows) < max_rows_per_chunk

\* ---- properties of the prose chunker
Defaults == chunk_size = DEFAULT_CHUNK_SIZE /\ overlap = DEFAULT_OVERLAP

\* Python position p of the text lies in the window of some emitted chunk
Covered(p) == \E j \in 1..Len(spans) : spans[j][1] <= p /\ p < spans[j][2]

\* C5: with chunk_size=1000 and overlap=200 the chunks come in strictly
\* increasing window-start order, every non-whitespace character of the text
\* lies inside at least one chunk, and every non-final chunk ends at or after
\* the start of the next window.
C5_ChunksCoverText ==
    (cpc = "done" /\ Defaults) =>
        /\ \A j \in 1..(Len(spans) - 1) : spans[j][1] < spans[j+1][1]
        /\ \A p \in 0..(Len(extracted_text) - 1) :
              ~IsSpace(extracted_text[p + 1]) => Covered(p)
        /\ \A j \in 1..(Len(spans) - 1) : spans[j][2] >= spans[j+1][1]

ChunksWellFormed ==
    \A j \in 1..Len(chunks) :
        /\ Len(chunks[j]) \in 1..chunk_size
        /\ Strip(chunks[j]) = chunks[j]

\* an iteration moves the window start forward
WindowAdvances ==
    /\ current_pos' >= current_pos + 1
    /\ current_pos' >= current_pos + chunk_size - overlap
    /\ current_pos' \in {current_pos + chunk_size - overlap, current_pos + 1}

\* C13: for every text, every chunk_size >= 1 and every overlap >= 0
\* (overlap >= chunk_size included) the chunking loop terminates; each
\* iteration moves the window start by chunk_size - overlap and by at least
\* 1; the loop stops once the start has reached the text length; no chunk is
\* longer than chunk_size and none is empty after trimming.
C13_ChunkLoopTerminates ==
    /\ [](ChunksWellFormed /\ (cpc = "done" => current_pos >= Len(extracted_text)))
    /\ [][cpc = "loop" =>
            /\ current_pos < Len(extracted_text) => WindowAdvances
            /\ cpc' = "done" <=> current_pos' >= Len(extracted_text)]_chunkVars
    /\ <>(cpc = "done")

\* the loop has ended on a text that took several windows although the
\* overlap is not smaller than the chunk size
C13_Witness ==
    /\ cpc = "done"
    /\ overlap >= chunk_size
    /\ Len(chunks) >= 2
    /\ Len(chunks) < Len(extracted_text)

\* ---- properties of the answer composer
Generated == apc \in {"generated", "validated"}

RECURSIVE SentencesUpTo(_, _)
SentencesUpTo(contexts, n) ==
    IF n = 0 THEN <<>>
    ELSE SentencesUpTo(contexts, n - 1) \o SplitOn(contexts[n], SENTENCE_SEPARATOR)

\* every sentence of every context, in the order encountered
AllSentences == SentencesUpTo(a_contexts, Len(a_contexts))

FirstAt(seq, x) == CHOOSE n \in 1..Len(seq) : seq[n] = x /\ \A m \in 1..(n-1) : seq[m] # x

RECURSIVE Joined(_, _)
Joined(pieces, n) ==
    IF n = 0 THEN <<>>
    ELSE IF n = 1 THEN pieces[1]
    ELSE Joined(pieces, n - 1) \o <<" ">> \o pieces[n]

Shown == SlicePrefix(a_result.relevant_sentences, MAX_SENTENCES)

Periodised(x) == IF Len(x) > 0 /\ x[Len(x)] = "." THEN x ELSE Append(x, ".")

\* the parts of C10 that do not depend on the length bound
AnswerShape(minimum) ==
    LET keywords == KeywordsOf(a_query)
        kept == a_result.relevant_sentences
        Qualifies(x) == HasKeyword(x, keywords) /\ Len(x) >= minimum
    IN  /\ \A n \in 1..Len(AllSentences) :
              Qualifies(AllSentences[n]) => AllSentences[n] \in Range(kept)
        /\ \A j \in 1..Len(kept) : kept[j] \in Range(AllSentences) /\ Qualifies(kept[j])
        /\ \A j, k \in 1..Len(kept) :
              j < k => /\ kept[j] # kept[k]
                       /\ FirstAt(AllSentences, kept[j]) < FirstAt(AllSentences, kept[k])
        /\ Len(Shown) <= MAX_SENTENCES
        /\ IF kept # <<>>
           THEN a_result.answer =
                  BASED_ON_PREFIX
                    \o Joined([j \in 1..Len(Shown) |-> Periodised(Strip(Shown[j]))], Len(Shown))
           ELSE a_result.answer = FALLBACK_PREFIX \o a_contexts[1]

\* C12: for every query, generate_answer returns the insufficient-information
\* message when the context list is empty or None, and output_validator
\* returns that message unchanged.
C12_NoContextsInsufficient ==
    (a_none \/ Len(a_contexts) = 0) =>
        /\ apc \in {"generated", "validated"} =>
              a_result.answer = INSUFFICIENT_INFORMATION
        /\ apc = "validated" => a_validated = INSUFFICIENT_INFORMATION

\* the message came out of output_validator for a query with keywords and
\* no contexts
C12_Witness ==
    /\ apc = "validated"
    /\ a_none
    /\ KeywordsOf(a_query) # <<>>
    /\ a_validated = INSUFFICIENT_INFORMATION

\* the same for an empty list
C12_WitnessEmptyList ==
    /\ apc = "validated"
    /\ ~a_none /\ a_contexts = <<>>
    /\ a_validated = INSUFFICIENT_INFORMATION

\* C10 as stated: every sentence with a keyword and a length of at least 10
\* characters is kept once; the answer is the prefix and the first 5 kept
\* sentences, each ending with a period, else the first context after a prefix.
C10_Original ==
    (Generated /\ Len(a_contexts) > 0) => AnswerShape(MIN_SENTENCE_LENGTH)

\* C10 amended: as stated, for the sentences of more than 10 characters.
C10_KeptSentences ==
    (Generated /\ Len(a_contexts) > 0) => AnswerShape(MIN_SENTENCE_LENGTH + 1)

\* more than 5 sentences kept, one sentence met twice, one matching sentence
\* of 10 characters or less passed over
C10_Witness ==
    /\ Generated
    /\ Len(a_result.relevant_sentences) > MAX_SENTENCES
    /\ \E n, m \in 1..Len(AllSentences) :
          n < m /\ AllSentences[n] = AllSentences[m]
                /\ AllSentences[n] \in Range(a_result.relevant_sentences)
    /\ \E n \in 1..Len(AllSentences) :
          /\ HasKeyword(AllSentences[n], KeywordsOf(a_query))
          /\ Len(AllSentences[n]) <= MIN_SENTENCE_LENGTH

EmbeddingFailed == ~r_call.docs_ok \/ ~r_call.q_ok

\* C9 as stated: after an embedding failure retrieve_context returns no
\* matches for every query and every similarity_threshold.
C9_Original ==
    (Searched /\ EmbeddingFailed) => r_result.contexts = <<>>

\* C9 amended: a failed embedding yields one all-zero vector per chunk (an
\* all-zero query vector), cosine_similarity is 0 when either argument is
\* all-zero, and retrieve_context returns no matches for every query and
\* every similarity_threshold greater than 0.
C9_ZeroVectorsNoMatches ==
    /\ (rpc = "embedded" /\ ~r_call.docs_ok) =>
          /\ ~r_embeddings.isNone
          /\ Len(r_embeddings.rows) = Len(documents)
          /\ \A i \in 1..Len(documents) : AllZero(r_embeddings.rows[i])
    /\ (Searched /\ ~r_call.q_ok) =>
          AllZero(embed_query(r_call.q_ok, r_call.q_encoded))
    /\ \A v \in Vectors :
          cosine_similarity(v, ZeroVector) = 0 /\ cosine_similarity(ZeroVector, v) = 0
    /\ (Searched /\ EmbeddingFailed /\ r_call.similarity_threshold > 0) =>
          r_result.contexts = <<>> /\ r_result.indices = <<>>

\* the chunk embedding failed, the query embedding worked, top_k chunks were asked for
C9_Witness ==
    /\ Searched
    /\ ~r_call.docs_ok /\ r_call.q_ok /\ ~AllZero(r_call.q_encoded)
    /\ Len(documents) >= 2
    /\ r_call.top_k > 0
    /\ r_call.similarity_threshold = DEFAULT_THRESHOLD
    /\ r_result.contexts = <<>>

\* ---- properties of the session
SessionCleared == last_question = <<>> /\ last_answer = <<>> /\ context_used = <<>>

\* C4: after Clear Document, and after a run that ingested a new document
\* and answered no question on it, last_question, last_answer and
\* context_used are empty.
C4_ClearedOnResetAndReplacement ==
    (s_run.kind = "clear" \/ (s_run.replaced /\ ~s_run.generated)) => SessionCleared

\* what generate_embeddings can return for a chunk list
EmbeddingsOf(chunk_list) ==
    {generate_embeddings(chunk_list, model_ok,
                         [i \in 1..Len(chunk_list) |-> Encode(chunk_list[i])]) :
        model_ok \in BOOLEAN}

NoDocument == ~file_uploaded /\ document_chunks = <<>> /\ embeddings = None

DocumentLoaded ==
    /\ file_uploaded
    /\ document_chunks # <<>>
    /\ ~embeddings.isNone
    /\ Len(embeddings.rows) = Len(document_chunks)
    /\ embeddings \in EmbeddingsOf(document_chunks)

\* C14: in every reachable session state either no document is held
\* (file_uploaded false, no chunks, embeddings None) or one is (file_uploaded
\* true, chunks non-empty, one vector per chunk, embedded from that chunk list
\* in order); a run whose ingest yields zero chunks leaves the three fields as
\* they were; a question is answered only while file_uploaded is true.
C14_SessionConsistent ==
    /\ [](NoDocument \/ DocumentLoaded)
    /\ [](s_run.generated => file_uploaded)
    /\ [][(s_run'.ingest = "failed" /\ s_run'.kind # "clear") =>
            UNCHANGED <<document_chunks, embeddings, file_uploaded>>]_sessVars

\* a file that yields no chunks was uploaded over a document of several
\* chunks, which is still held
C14_Witness ==
    /\ s_run.kind = "upload" /\ s_run.ingest = "failed"
    /\ file_uploaded
    /\ Len(document_chunks) >= 2
    /\ Len(embeddings.rows) = Len(document_chunks)

\* the answers and contexts a run can store for a question on a chunk list
AnswersOn(chunk_list, q) ==
    {LET found == retrieve_context(chunk_list, embs, q_ok, Encode(q),
                                   DEFAULT_TOP_K, DEFAULT_THRESHOLD)
     IN  [answer |-> output_validator(generate_answer(q, List(found.contexts)).answer),
          contexts |-> found.contexts] :
        embs \in EmbeddingsOf(chunk_list), q_ok \in BOOLEAN}

\* C15: whenever last_answer is non-empty, every entry of context_used is a
\* chunk of the document held now, and last_answer and context_used are what
\* answering last_question on that document gives.
C15_AnswerFromCurrentDocument ==
    last_answer # <<>> =>
        /\ \A j \in 1..Len(context_used) : context_used[j] \in Range(document_chunks)
        /\ [answer |-> last_answer, contexts |-> context_used]
              \in AnswersOn(document_chunks, last_question)

\* the query fails one of the three tests of the safety filter
Rejected(q) ==
    \/ Len(Strip(q)) < 3
    \/ Len(q) > 500
    \/ \E pattern \in sensitive_patterns : re_search(pattern, q)

\* C7: a valid query submitted while the uploader holds a document that
\* yields zero chunks is answered with the insufficient-information message.
C7_EmptyDocumentInsufficient ==
    (s_run.ingest = "failed" /\ s_run.validated /\ ~Rejected(s_run.question)) =>
        /\ s_run.generated
        /\ last_question = s_run.question
        /\ StartsWith(last_answer, INSUFFICIENT_INFORMATION)

\* C8: a query that the safety filter rejects is neither retrieved for nor
\* answered, and the run that submitted it leaves last_question, last_answer
\* and context_used as they were.
C8_RejectedQueryNotProcessed ==
    Rejected(s_run.question) =>
        /\ ~s_run.retrieved
        /\ ~s_run.generated
        /\ s_run.validated =>
              /\ last_question = s_run.before.last_question
              /\ last_answer = s_run.before.last_answer
              /\ context_used = s_run.before.context_used

\* a query of three or more characters that trims to fewer than three was
\* submitted after another query had been answered
C8_Witness ==
    /\ s_run.validated
    /\ Len(s_run.question) >= 3 /\ Len(Strip(s_run.question)) < 3
    /\ last_answer # <<>> /\ Len(context_used) > 0

====
